---- MODULE Spec2Model ----
(***************************************************************************)
(* Dispensing sequencer of the production-control GUI (src/gui.py,         *)
(* class MainWindow) as a state machine.                                   *)
(*                                                                         *)
(* Weights are integers in tenths of a kilogram (10.0 kg = 100, 2.0 kg =   *)
(* 20).  Every weight the model uses is a multiple of 0.1 kg, so the       *)
(* subtractions and comparisons of the code are exact on these integers.   *)
(* Qt runs every handler to completion on the GUI thread, so each handler  *)
(* is one atomic action.                                                   *)
(***************************************************************************)
EXTENDS Integers, Sequences, FiniteSets, TLC

\* ---------------------------------------------------------------- constants
NUM_TANKS == 25
NUM_STIRRERS == 4
GPIO_TANK_LIMIT == 5

\* ------------------------------------------------------------------- bounds
\* rows of the batch table the model lets the operator tick (<= NUM_STIRRERS)
NumStations == 2

\* batch sizes the operator enters in the spin box, kg
Amounts == {100}

\* longest recipe the resolver is given
MaxLines == 3

\* weights the instrument answers with, tenths of a kg; NoReading stands for
\* no bytes or a frame float() rejects, for which read_weight returns None
Readings == {0, 80, 100}
NoReading == -1

\* the readings of the sequencer scenario: 10.0, 9.5, 8.3, 7.9 kg
ScenarioReadings == {100, 95, 83, 79}

\* current_stirrer_index before the attribute exists (hasattr is false)
Unset == -1

\* a tank reference for which chr(ord('A') + tank - 1) raises ValueError
BadTank == -65

\* recipe files of the products directory: percentage of the batch, tank
Line(p, t) == [percentage |-> p, has_tank |-> TRUE, tank |-> t]
LineNoTank(p) == [percentage |-> p, has_tank |-> FALSE, tank |-> 0]

Products ==
    [ single  |-> << Line(2, 1) >>,
      double  |-> << Line(4, 1), Line(0, 2), LineNoTank(2) >>,
      unwired |-> << Line(2, 6) >>,
      broken  |-> << Line(1, BadTank) >> ]

\* the recipes the resolver is given: every sequence of at most MaxLines of
\* these lines, each stored in a file that is named by its content
ResolverLines ==
    {Line(0, 2), Line(40, 2), Line(60, 3), LineNoTank(40), LineNoTank(0)}
RecipeSpace == UNION {[1..n -> ResolverLines] : n \in 0..MaxLines}
ResolverFiles == [recipe \in RecipeSpace |-> recipe]
ResolverAmounts == {50, 100}

\* the products offered in the combo boxes of the batch table
ProductNames == {"single", "double", "broken"}

VARIABLES
    screen,                 \* central widget: "menu", "batch", "monitor"
    timer,                  \* update_timer.isActive()
    ser,                    \* "None" or "open"
    stirrer_processes,      \* station -> [product, total_amount, steps,
                            \*             current_step, status]
    stirrer_tables,         \* station -> rows [dispensed, progress, status]
    current_stirrer_index,  \* index into sorted(stirrer_processes), or Unset
    active_outputs,         \* keys <<tank, stirrer>> currently ON
    paused_outputs,         \* keys remembered by pause
    gpio_sim,               \* TRUE: simulation mode, FALSE: RPi.GPIO driver
    pin_high,               \* keys whose pin the driver drives HIGH
    log,                    \* dispensing log: <<stirrer, step>> -> entry
    last_op,                \* history: the handler that ran last
    last_weight,            \* history: the weight the run's last successful
                            \* query returned, NoReading before the first
    queries,                \* history: the channels the last handler sent a
                            \* weight query to, in order
    stop_flag,              \* main.py: ProcessDataHandler.stop_flag is set
    tank_pins,              \* main.py: stirrer numbers whose pin of
                            \* TANK1_GPIO_PINS is HIGH
    worker,                 \* main.py: thread id -> the frame of its
                            \* execute_process call
    stopper,                \* main.py: position of the thread that calls
                            \* stop_process(): 0 idle, 1 flag set, k + 1 when
                            \* the pins of stirrers 1..k are driven LOW
    halted,                 \* main.py, history: the workers that were alive
                            \* when the last stop_all_tanks() returned
    rs,                     \* rs.py: the frame of run_process
    imp                     \* imp.py: the frame of main

\* the state of the window of gui.py
gui_vars == << screen, timer, ser, stirrer_processes, stirrer_tables,
               current_stirrer_index, active_outputs, paused_outputs,
               gpio_sim, pin_high, log, last_op, last_weight, queries >>

\* the state of the standalone runners main.py, rs.py and imp.py
main_vars == << stop_flag, tank_pins, worker, stopper, halted >>
runner_vars == << main_vars, rs, imp >>

vars == << gui_vars, runner_vars >>

EmptyMap == << >>

Max(a, b) == IF a >= b THEN a ELSE b
Min(a, b) == IF a <= b THEN a ELSE b

\* a read_weight that reports 0.0 instead of None
read_weight_zero(port, resp) == IF resp = NoReading THEN 0 ELSE resp

\* ------------------------------------------------------------ weight channel
\* read_weight(ser, channel): None without an open port or without a parsable
\* answer, else the weight the instrument sent
read_weight(port, resp) ==
    IF port # "open" THEN NoReading ELSE resp

\* a channel letter that is one too far
ChannelNext(tank_number) == 65 + tank_number

\* ord('A') + (tank_number - 1): the code point of the channel letter
Channel(tank_number) == 65 + (tank_number - 1)

\* chr(ord('A') + (tank_number - 1)) raises outside the code-point range
ChannelRaises(tank_number) ==
    \/ 65 + (tank_number - 1) < 0
    \/ 65 + (tank_number - 1) > 1114111

\* the queries one read_weight call writes: ser.write(cmd) once, on an open
\* port only
Query(port, channel) == IF port = "open" THEN << channel >> ELSE << >>

\* --------------------------------------------------------- output controller
\* a map that wires every tank
GpioMappedAll(t, s) == t \in 1..NUM_TANKS /\ s \in 1..NUM_STIRRERS

\* gpio_map.get(key) is not None: the default map wires tanks 1..GPIO_TANK_LIMIT
GpioMapped(t, s) == t \in 1..GPIO_TANK_LIMIT /\ s \in 1..NUM_STIRRERS

\* a set_output whose ON request flips the line it finds asserted
set_output_toggle(act, pins, t, s, on, raises) ==
    IF ~GpioMapped(t, s) \/ (~gpio_sim /\ raises)
    THEN [active |-> act, pins |-> pins]
    ELSE [active |-> IF on /\ <<t, s>> \notin act THEN act \cup {<<t, s>>}
                     ELSE act \ {<<t, s>>},
          pins |-> IF gpio_sim THEN pins
                   ELSE IF on /\ <<t, s>> \notin pins
                        THEN pins \cup {<<t, s>>}
                        ELSE pins \ {<<t, s>>}]

\* a set_output that records the line before it calls the driver
set_output_optimistic(act, pins, t, s, on, raises) ==
    IF ~GpioMapped(t, s) THEN [active |-> act, pins |-> pins]
    ELSE [active |-> IF on THEN act \cup {<<t, s>>} ELSE act \ {<<t, s>>},
          pins |-> IF gpio_sim \/ raises THEN pins
                   ELSE IF on THEN pins \cup {<<t, s>>}
                        ELSE pins \ {<<t, s>>}]

\* a set_output whose OFF request never drops the key
set_output_sticky(act, pins, t, s, on, raises) ==
    IF GpioMapped(t, s) /\ on
    THEN [active |-> act \cup {<<t, s>>},
          pins |-> IF gpio_sim THEN pins ELSE pins \cup {<<t, s>>}]
    ELSE [active |-> act, pins |-> pins]

\* set_output: the asserted set and the pin levels after the call.
\* raises: GPIO.output raises in this call (hardware mode only).
set_output(act, pins, t, s, on, raises) ==
    IF ~GpioMapped(t, s) THEN [active |-> act, pins |-> pins]
    ELSE IF gpio_sim THEN
        [active |-> IF on THEN act \cup {<<t, s>>} ELSE act \ {<<t, s>>},
         pins |-> pins]
    ELSE IF raises THEN [active |-> act, pins |-> pins]
    ELSE
        [active |-> IF on THEN act \cup {<<t, s>>} ELSE act \ {<<t, s>>},
         pins |-> IF on THEN pins \cup {<<t, s>>} ELSE pins \ {<<t, s>>}]

\* a cleanup that gives up at the first GPIO.output that raises
cleanup_gpio_aborts(act, pins, failing) ==
    IF gpio_sim THEN [active |-> {k \in act : ~GpioMapped(k[1], k[2])},
                      pins |-> pins]
    ELSE IF failing # {} THEN [active |-> act, pins |-> pins]
    ELSE [active |-> {k \in act : ~GpioMapped(k[1], k[2])},
          pins |-> {k \in pins : ~GpioMapped(k[1], k[2])}]

\* a cleanup that only walks the keys of stirrer 1
cleanup_gpio_first(act, pins, failing) ==
    [active |-> {k \in act : k[2] # 1}, pins |-> {k \in pins : k[2] # 1}]

\* cleanup_gpio: every mapped key is driven LOW and dropped from the asserted
\* set; failing is the set of keys for which GPIO.output raises.
cleanup_gpio(act, pins, failing) ==
    IF gpio_sim THEN [active |-> {k \in act : ~GpioMapped(k[1], k[2])},
                      pins |-> pins]
    ELSE [active |-> {k \in act : ~GpioMapped(k[1], k[2]) \/ k \in failing},
          pins |-> {k \in pins : ~GpioMapped(k[1], k[2]) \/ k \in failing}]

\* ------------------------------------------------------------------- run log
\* a start that keeps the log of the run before
initialize_dispensing_log_kept == log

\* initialize_dispensing_log: the log file is rewritten with no stirrer entry
initialize_dispensing_log == EmptyMap

\* a log write whose exception reaches the caller
LogRaisesUncaught(log_failing) == log_failing # {}

\* update_dispensing_log wraps its whole body in try/except and only prints:
\* no failure of a log write reaches update_process.  log_failing: the log
\* writes of a tick that fail (1: the progress update, 2: the completion)
LogRaises(log_failing) == FALSE

\* the entry update_dispensing_log stores under (stirrer, step)
LogEntry(target, dispensed, status, tank_number) ==
    [tank_number |-> tank_number,
     target_weight_kg |-> target,
     dispensed_weight_kg |-> dispensed,
     progress_percent |-> IF target > 0 THEN (dispensed * 100) \div target ELSE 0,
     status |-> status]

\* a log update that starts from an empty log instead of the file's content
update_dispensing_log_fresh(lg, stirrer_num, step_num, target, dispensed, status, tank) ==
    [k \in {<<stirrer_num, step_num>>} |->
        LogEntry(target, dispensed, status, tank)]

update_dispensing_log(lg, stirrer_num, step_num, target, dispensed, status, tank) ==
    [k \in DOMAIN lg \cup {<<stirrer_num, step_num>>} |->
        IF k = <<stirrer_num, step_num>>
        THEN LogEntry(target, dispensed, status, tank)
        ELSE lg[k]]

\* ----------------------------------------------------------- recipe resolver
\* req_weight = (perc / 100.0) * total_amount, in tenths of a kg
ReqWeight(perc, total_amount) == (perc * total_amount) \div 10

\* a resolver that also emits the lines whose weight is zero
EmitsZero(req_weight) == req_weight >= 0

\* if req_weight > 0: the line becomes a step
Emits(req_weight) == req_weight > 0

\* a fallback that uses the line's index instead of index + 1
TankOfIndex(mat, step_idx) == IF mat.has_tank THEN mat.tank ELSE step_idx

\* mat.get("tank", step_idx + 1); step_idx is enumerate's 0-based index
TankOf(mat, step_idx) == IF mat.has_tank THEN mat.tank ELSE step_idx + 1

\* the step-building loop of start_production; idx is the 1-based position
RECURSIVE BuildSteps(_, _, _)
BuildSteps(recipe, idx, total_amount) ==
    IF idx > Len(recipe) THEN << >>
    ELSE LET mat == recipe[idx]
             perc == mat.percentage
             tank_number == TankOf(mat, idx - 1)
             req_weight == ReqWeight(perc, total_amount)
             rest == BuildSteps(recipe, idx + 1, total_amount)
         IN IF Emits(req_weight)
            THEN << [tank_number |-> tank_number,
                     target_weight |-> req_weight,
                     dispensed_weight |-> 0,
                     start_weight |-> 0,
                     status |-> "Waiting"] >> \o rest
            ELSE rest

\* ---------------------------------------------------------------------- Init
\* ------------------------------------------------------------------ main.py
\* stirrer numbers that are keys of TANK1_GPIO_PINS (8 in the source)
NumPins == 2
TANK1_GPIO_PINS == 1..NumPins

\* threads that can run execute_process at the same time
MainWorkers == 2

\* the timeout of wait_for_weight_target in seconds (300 in the source); one
\* pass of its loop takes one second (time.sleep(1))
MainTimeout == 3

\* tolerance of wait_for_weight_target, tenths of a kg
MainTolerance == 1

\* weights the instrument answers main.py with, tenths of a kg
MainReadings == {0, 20}

\* process_data.json: steps, each a list of activations (stirrer, weight in
\* tenths of a kg) as get_activations extracts them; << >> is a file that is
\* missing or empty
Activation(stirrer_num, weight) == [stirrer_num |-> stirrer_num, weight |-> weight]
MainProcesses ==
    { << >>,
      << << Activation(1, 20) >>, << Activation(2, 50) >> >>,
      << << Activation(3, 20), Activation(2, 0), Activation(1, 20) >> >> }

\* the frame of a thread that is not running execute_process
IdleFrame ==
    [pc |-> "idle", data |-> << >>, step |-> 0, act |-> 0, elapsed |-> 0,
     rs485_available |-> FALSE, k |-> 0, result |-> "none"]

\* the frame of run_process in rs.py before the script runs
RsIdle ==
    [pc |-> "idle", step |-> 0, prev_weight |-> 0, dispensed |-> 0,
     first_reading |-> NoReading]

\* the frame of main in imp.py before the script runs
ImpIdle ==
    [pc |-> "idle", gpio_available |-> FALSE, act |-> 0, pin |-> FALSE,
     initial_weight |-> NoReading, diff |-> 0]

Init ==
    /\ screen = "menu"
    /\ timer = FALSE
    /\ ser = "None"
    /\ stirrer_processes = EmptyMap
    /\ stirrer_tables = EmptyMap
    /\ current_stirrer_index = Unset
    /\ active_outputs = {}
    /\ paused_outputs = {}
    /\ gpio_sim \in BOOLEAN
    /\ pin_high = {}
    /\ log = EmptyMap
    /\ last_op = "init"
    /\ last_weight = NoReading
    /\ queries = << >>
    /\ stop_flag = FALSE
    /\ tank_pins = {}
    /\ worker = [w \in 1..MainWorkers |-> IdleFrame]
    /\ stopper = 0
    /\ halted = {}
    /\ rs = RsIdle
    /\ imp = ImpIdle

\* ------------------------------------------------------------ stop_process
\* a stop_process that keeps the run's state
stop_process_keeps(failing) ==
    LET c == cleanup_gpio(active_outputs, pin_high, failing)
    IN /\ timer' = FALSE
       /\ ser' = "None"
       /\ active_outputs' = c.active
       /\ pin_high' = c.pins
       /\ UNCHANGED << stirrer_processes, stirrer_tables >>
       /\ last_weight' = NoReading

\* stop_process: timer stopped, serial closed, cleanup_gpio, run state dropped
stop_process(failing) ==
    LET c == cleanup_gpio(active_outputs, pin_high, failing)
    IN /\ timer' = FALSE
       /\ ser' = "None"
       /\ active_outputs' = c.active
       /\ pin_high' = c.pins
       /\ stirrer_processes' = EmptyMap
       /\ stirrer_tables' = EmptyMap
       /\ last_weight' = NoReading

\* ------------------------------------------------------------- navigation
\* Every handler that leaves the monitor screen (stop_production,
\* go_back_to_main, the open_* handlers) calls stop_process first; they act
\* on the state below as stop_production does, which stands for them.

\* open_batch_production, reached from the main menu
open_batch_production(failing) ==
    /\ screen = "menu"
    /\ stop_process(failing)
    /\ screen' = "batch"
    /\ last_op' = "open_batch"
    /\ queries' = << >>
    /\ UNCHANGED << current_stirrer_index, paused_outputs, gpio_sim, log >>
    /\ UNCHANGED runner_vars

\* stop_production, the Stop button of the monitor screen
stop_production(failing) ==
    /\ screen = "monitor"
    /\ stop_process(failing)
    /\ screen' = "batch"
    /\ last_op' = "stop"
    /\ queries' = << >>
    /\ UNCHANGED << current_stirrer_index, paused_outputs, gpio_sim, log >>
    /\ UNCHANGED runner_vars

\* --------------------------------------------------------- start_production
\* files: the products directory, product name -> recipe; choice: the
\* ticked rows of the batch table -> the product picked in the row; amount:
\* the spin box value; serial_ok: configure_serial succeeds
NewProcesses(files, choice, amount) ==
    LET rows == {s \in DOMAIN choice :
                    /\ amount > 0
                    /\ BuildSteps(files[choice[s]], 1, amount) # << >>}
    IN [s \in rows |->
          [product |-> choice[s],
           total_amount |-> amount,
           steps |-> BuildSteps(files[choice[s]], 1, amount),
           current_step |-> 0,
           status |-> "Active"]]

\* the rows open_production_monitor writes for every step
NewTables(procs) ==
    [s \in DOMAIN procs |->
        [i \in 1..Len(procs[s].steps) |->
            [dispensed |-> 0, progress |-> 0, status |-> "Waiting"]]]

start_production(files, choice, amount, serial_ok) ==
    /\ screen = "batch"
    /\ LET procs == NewProcesses(files, choice, amount)
       IN /\ stirrer_processes' = procs
          /\ log' = initialize_dispensing_log
          /\ IF procs # EmptyMap /\ serial_ok
             THEN /\ ser' = "open"
                  /\ stirrer_tables' = NewTables(procs)
                  /\ screen' = "monitor"
                  /\ timer' = TRUE
             ELSE UNCHANGED << ser, stirrer_tables, screen, timer >>
    /\ last_op' = "start"
    /\ queries' = << >>
    /\ last_weight' = NoReading
    /\ UNCHANGED << current_stirrer_index, active_outputs, paused_outputs,
                    gpio_sim, pin_high >>
    /\ UNCHANGED runner_vars

\* ------------------------------------------------------------ toggle_pause
\* the resume test: the station's current step uses tank t and is Dispensing
StillDispensing(t, s) ==
    /\ s \in DOMAIN stirrer_processes
    /\ LET proc == stirrer_processes[s]
           idx == proc.current_step
       IN /\ idx < Len(proc.steps)
          /\ proc.steps[idx + 1].tank_number = t
          /\ proc.steps[idx + 1].status = "Dispensing"

\* a pause that forgets to switch the outputs off
SetAllSkipped(act, pins, keys, on, raising) == [active |-> act, pins |-> pins]

\* set_output applied to every key of keys (the calls touch different keys,
\* so their order does not matter); raising: keys whose GPIO.output raises
RECURSIVE SetAll(_, _, _, _, _)
SetAll(act, pins, keys, on, raising) ==
    IF keys = {} THEN [active |-> act, pins |-> pins]
    ELSE LET k == CHOOSE x \in keys : TRUE
             r == set_output(act, pins, k[1], k[2], on, k \in raising)
         IN SetAll(r.active, r.pins, keys \ {k}, on, raising)

\* a resume that switches every remembered output back on
ResumeKeysAll(keys) == keys

\* the remembered outputs the resume branch switches back on
ResumeKeys(keys) == {k \in keys : StillDispensing(k[1], k[2])}

\* a resume that makes every Dispensing step capture its baseline again
toggle_pause_rebase(raising) ==
    /\ screen = "monitor"
    /\ IF timer
       THEN LET r == SetAll(active_outputs, pin_high, active_outputs,
                            FALSE, raising)
            IN /\ timer' = FALSE
               /\ paused_outputs' = active_outputs
               /\ active_outputs' = r.active
               /\ pin_high' = r.pins
               /\ last_op' = "pause"
               /\ UNCHANGED stirrer_processes
       ELSE LET r == SetAll(active_outputs, pin_high,
                            ResumeKeys(paused_outputs), TRUE, raising)
            IN /\ timer' = TRUE
               /\ active_outputs' = r.active
               /\ pin_high' = r.pins
               /\ paused_outputs' = {}
               /\ last_op' = "resume"
               /\ stirrer_processes' =
                     [s \in DOMAIN stirrer_processes |->
                        [stirrer_processes[s] EXCEPT !.steps =
                           [i \in 1..Len(stirrer_processes[s].steps) |->
                              IF stirrer_processes[s].steps[i].status = "Dispensing"
                              THEN [stirrer_processes[s].steps[i]
                                      EXCEPT !.start_weight = 0]
                              ELSE stirrer_processes[s].steps[i]]]]
    /\ queries' = << >>
    /\ UNCHANGED << screen, ser, stirrer_tables, current_stirrer_index,
                    gpio_sim, log, last_weight >>
    /\ UNCHANGED runner_vars

toggle_pause(raising) ==
    /\ screen = "monitor"
    /\ IF timer
       THEN \* pausing
            LET r == SetAll(active_outputs, pin_high, active_outputs,
                            FALSE, raising)
            IN /\ timer' = FALSE
               /\ paused_outputs' = active_outputs
               /\ active_outputs' = r.active
               /\ pin_high' = r.pins
               /\ last_op' = "pause"
       ELSE \* resuming
            LET r == SetAll(active_outputs, pin_high,
                            ResumeKeys(paused_outputs), TRUE, raising)
            IN /\ timer' = TRUE
               /\ active_outputs' = r.active
               /\ pin_high' = r.pins
               /\ paused_outputs' = {}
               /\ last_op' = "resume"
    /\ queries' = << >>
    /\ UNCHANGED << screen, ser, stirrer_processes, stirrer_tables,
                    current_stirrer_index, gpio_sim, log, last_weight >>
    /\ UNCHANGED runner_vars

\* ---------------------------------------------------------- update_process
\* sorted(self.stirrer_processes.keys())[i], i counted from 0
NthStirrer(i) ==
    CHOOSE s \in DOMAIN stirrer_processes :
        Cardinality({x \in DOMAIN stirrer_processes : x < s}) = i

\* current_stirrer_index as the tick uses it (0 when the attribute is missing)
StirrerIndex ==
    IF current_stirrer_index = Unset THEN 0 ELSE current_stirrer_index

\* a capture test that never fires (the baseline starts as 0.0, not None)
NeedsBaselineNever(step) == FALSE

\* a baseline that is captured again on every reading
NeedsBaselineAlways(step) == TRUE

\* if current_step["start_weight"] == 0: the baseline is still to be captured
NeedsBaseline(step) == step.start_weight = 0

\* a baseline that follows the latest reading once the amount is computed
StoredBaselineLatest(start_weight, current_weight) == current_weight

\* current_step["start_weight"] as the tick leaves it: written only by the
\* capture, never after the amount has been computed
StoredBaseline(start_weight, current_weight) == start_weight

\* the dispensed weight stored without the max(0, ...)
ClampMissing(dispensed) == dispensed

\* current_step["dispensed_weight"] = max(0, dispensed)
Clamp(dispensed) == Max(0, dispensed)

\* a progress value without the cap at 100
ProgressUncapped(dispensed, target) ==
    IF target > 0 THEN (dispensed * 100) \div target ELSE 0

\* min(100.0, (dispensed / target) * 100) if target > 0 else 0
Progress(dispensed, target) ==
    IF target > 0 THEN Min(100, (dispensed * 100) \div target) ELSE 0

\* if progress >= 100: the step is complete
StepDone(progress) == progress >= 100

\* a sequencer that skips the step after the one it has completed
AdvanceStepTwo(current_step_idx, done) ==
    IF done THEN current_step_idx + 2 ELSE current_step_idx

\* a sequencer that stays on the step it has just completed
AdvanceStepStuck(current_step_idx, done) == current_step_idx

\* proc_data["current_step"] += 1 in the completion branch
AdvanceStep(current_step_idx, done) ==
    IF done THEN current_step_idx + 1 ELSE current_step_idx

\* a completing step that leaves its output on
CompleteOutputKept(out, tank_number, s, raises) == out

\* the output call of a completing step: set_output(tank, stirrer, False)
CompleteOutput(out, tank_number, s, raises) ==
    set_output(out.active, out.pins, tank_number, s, FALSE, raises)

\* a sequencer that moves to the next station after every reading
AdvanceStationAlways(idx, last) == idx + 1

\* self.current_stirrer_index += 1, only after the station's last step
AdvanceStation(idx, last) == IF last THEN idx + 1 ELSE idx

\* the part of a tick after a successful reading current_weight; s is the
\* polled station, idx the stirrer index.
\* raise_on, raise_off: GPIO.output raises in the ON call, in the OFF call;
\* log_failing: the log writes that fail and leave the log as it was.
ProcessReading(s, current_weight, idx, raise_on, raise_off, log_failing) ==
    LET proc_data == stirrer_processes[s]
        steps == proc_data.steps
        current_step_idx == proc_data.current_step
        current_step == steps[current_step_idx + 1]
        tank_number == current_step.tank_number
        capture == NeedsBaseline(current_step)
        start_weight == IF capture THEN current_weight
                        ELSE current_step.start_weight
        status1 == IF capture THEN "Dispensing" ELSE current_step.status
        out1 == IF capture
                THEN set_output(active_outputs, pin_high, tank_number, s,
                                TRUE, raise_on)
                ELSE [active |-> active_outputs, pins |-> pin_high]
        dispensed == start_weight - current_weight
        target == current_step.target_weight
        progress == Progress(dispensed, target)
        log1 == IF 1 \in log_failing THEN log
                ELSE update_dispensing_log(log, s, current_step_idx + 1,
                                           target, dispensed, status1,
                                           tank_number)
        done == StepDone(progress)
        out2 == IF done THEN CompleteOutput(out1, tank_number, s, raise_off)
                ELSE out1
        log2 == IF done /\ 2 \notin log_failing
                THEN update_dispensing_log(log1, s, current_step_idx + 1,
                                           target, dispensed, "Complete",
                                           tank_number)
                ELSE log1
        step2 == [current_step EXCEPT
                     !.start_weight =
                         StoredBaseline(start_weight, current_weight),
                     !.dispensed_weight = Clamp(dispensed),
                     !.status = IF done THEN "Complete" ELSE status1]
        next_idx == AdvanceStep(current_step_idx, done)
        steps2 == [steps EXCEPT ![current_step_idx + 1] = step2]
        steps3 == IF done /\ next_idx < Len(steps)
                  THEN [steps2 EXCEPT ![next_idx + 1].start_weight = 0]
                  ELSE steps2
        last == done /\ next_idx >= Len(steps)
    IN /\ stirrer_processes' =
            [stirrer_processes EXCEPT
                ![s] = [proc_data EXCEPT
                          !.steps = steps3,
                          !.current_step = next_idx,
                          !.status = IF last THEN "Complete"
                                     ELSE proc_data.status]]
       /\ stirrer_tables' =
            [stirrer_tables EXCEPT
                ![s][current_step_idx + 1] =
                    [dispensed |-> dispensed,
                     progress |-> progress,
                     status |-> IF done THEN "Complete" ELSE status1]]
       /\ current_stirrer_index' = AdvanceStation(idx, last)
       /\ active_outputs' = out2.active
       /\ pin_high' = out2.pins
       /\ log' = log2
       /\ last_weight' = current_weight
       /\ UNCHANGED << timer, ser >>

\* the tick gets as far as querying the weight channel
Polls ==
    /\ stirrer_processes # EmptyMap
    /\ StirrerIndex < Cardinality(DOMAIN stirrer_processes)
    /\ LET proc_data == stirrer_processes[NthStirrer(StirrerIndex)]
       IN /\ proc_data.status # "Complete"
          /\ proc_data.current_step < Len(proc_data.steps)
          /\ ~ChannelRaises(
                 proc_data.steps[proc_data.current_step + 1].tank_number)

\* one timer tick.  resp: what the instrument answers if it is queried;
\* failing: keys whose GPIO.output raises in a cleanup run by this tick;
\* log_failing: the log writes of this tick that fail
update_process(resp, raise_on, raise_off, failing, log_failing) ==
    /\ timer
    /\ last_op' = "tick"
    /\ IF stirrer_processes = EmptyMap
       THEN /\ stop_process(failing)
            /\ queries' = << >>
            /\ UNCHANGED << current_stirrer_index, log >>
       ELSE
        LET idx == StirrerIndex
        IN IF idx >= Cardinality(DOMAIN stirrer_processes)
           THEN \* "All stirrers completed"
                /\ stop_process(failing)
                /\ current_stirrer_index' = idx
                /\ queries' = << >>
                /\ UNCHANGED log
           ELSE
            LET s == NthStirrer(idx)
                proc_data == stirrer_processes[s]
            IN IF proc_data.status = "Complete"
               THEN /\ current_stirrer_index' = idx + 1
                    /\ queries' = << >>
                    /\ UNCHANGED << timer, ser, stirrer_processes,
                                    stirrer_tables, active_outputs,
                                    pin_high, log, last_weight >>
               ELSE IF proc_data.current_step >= Len(proc_data.steps)
               THEN /\ stirrer_processes' =
                          [stirrer_processes EXCEPT ![s].status = "Complete"]
                    /\ current_stirrer_index' = idx + 1
                    /\ queries' = << >>
                    /\ UNCHANGED << timer, ser, stirrer_tables,
                                    active_outputs, pin_high, log,
                                    last_weight >>
               ELSE IF ChannelRaises(
                         proc_data.steps[proc_data.current_step + 1].tank_number)
               THEN \* except Exception: stop_process()
                    /\ stop_process(failing)
                    /\ current_stirrer_index' = idx
                    /\ queries' = << >>
                    /\ UNCHANGED log
               ELSE
                LET tank_number ==
                        proc_data.steps[proc_data.current_step + 1].tank_number
                    current_weight == read_weight(ser, resp)
                IN /\ queries' = Query(ser, Channel(tank_number))
                   /\ IF current_weight = NoReading
                      THEN /\ current_stirrer_index' = idx
                           /\ UNCHANGED << timer, ser, stirrer_processes,
                                           stirrer_tables, active_outputs,
                                           pin_high, log, last_weight >>
                      ELSE IF LogRaises(log_failing)
                      THEN \* except Exception: stop_process()
                           /\ stop_process(failing)
                           /\ current_stirrer_index' = idx
                           /\ UNCHANGED log
                      ELSE ProcessReading(s, current_weight, idx, raise_on,
                                          raise_off, log_failing)
    /\ UNCHANGED << screen, paused_outputs, gpio_sim >>
    /\ UNCHANGED runner_vars

\* ---------------------------------------------------------------------- Next
\* what the operator ticks and picks in the batch table
Choices == UNION {[rows -> ProductNames] : rows \in SUBSET (1..NumStations)}

OpenBatch == open_batch_production({})
Stop == stop_production({})
Start == \E choice \in Choices, amount \in Amounts, serial_ok \in BOOLEAN :
            start_production(Products, choice, amount, serial_ok)
Pause == toggle_pause({})
Tick == \E resp \in Readings \cup {NoReading} :
            update_process(resp, FALSE, FALSE, {}, {})

Next == OpenBatch \/ Stop \/ Start \/ Pause \/ Tick

Spec == Init /\ [][Next]_vars

\* the sequencer scenario: station 1 runs one 2.0 kg step from tank 1
ScenarioChoices == [{1} -> {"single"}]

StartScenario ==
    \E choice \in ScenarioChoices, amount \in Amounts, serial_ok \in BOOLEAN :
        start_production(Products, choice, amount, serial_ok)
TickScenario == \E resp \in ScenarioReadings \cup {NoReading} :
                    update_process(resp, FALSE, FALSE, {}, {})

NextScenario ==
    OpenBatch \/ Stop \/ StartScenario \/ Pause \/ TickScenario

SpecScenario == Init /\ [][NextScenario]_vars

\* the run with an output driver that can fail: GPIO.output may raise in the
\* ON call and in the OFF call of a tick (hardware mode)
FaultChoices == UNION {[rows -> {"double"}] : rows \in SUBSET (1..NumStations)}

StartFault ==
    \E choice \in FaultChoices, amount \in Amounts, serial_ok \in BOOLEAN :
        start_production(Products, choice, amount, serial_ok)
TickFault ==
    \E resp \in Readings \cup {NoReading}, raise_on \in BOOLEAN,
       raise_off \in BOOLEAN :
        update_process(resp, raise_on, raise_off, {}, {})

NextFault == OpenBatch \/ Stop \/ StartFault \/ Pause \/ TickFault

SpecFault == Init /\ [][NextFault]_vars

\* the resolver on every recipe of RecipeSpace: row 1 of the batch table is
\* ticked with the recipe's file and a batch size, the serial port opens and
\* the run that was built is polled
ResolverChoices == [{1} -> RecipeSpace]

StartResolve ==
    \E choice \in ResolverChoices, amount \in ResolverAmounts :
        start_production(ResolverFiles, choice, amount, TRUE)

\* the resolved run is polled with a full scale: its steps start, none ends
TickResolve == \E resp \in {100, NoReading} :
                  update_process(resp, FALSE, FALSE, {}, {})

NextResolve == OpenBatch \/ StartResolve \/ Pause \/ TickResolve

SpecResolve == Init /\ [][NextResolve]_vars

\* update_dispensing_log on its own: calls for two step keys of stirrer 1,
\* with targets (0 included) and amounts whose percentage is a whole number
LogKeys == {<< 1, 1 >>, << 1, 2 >>}
LogTargets == {0, 20, 40}
LogDispensed == {-20, 0, 20}
LogStatuses == {"Dispensing", "Complete"}

RecordStep ==
    /\ \E k \in LogKeys, target \in LogTargets, dispensed \in LogDispensed,
          status \in LogStatuses :
          log' = update_dispensing_log(log, k[1], k[2], target, dispensed,
                                       status, 1)
    /\ last_op' = "log"
    /\ UNCHANGED << screen, timer, ser, stirrer_processes, stirrer_tables,
                    current_stirrer_index, active_outputs, paused_outputs,
                    gpio_sim, pin_high, last_weight, queries >>
    /\ UNCHANGED runner_vars

SpecLog == Init /\ [][RecordStep]_vars

\* the run with a log file that cannot be written: station 1 runs the
\* two-step product and each of the two log writes of a tick may fail
LogFaultChoices == [{1} -> {"double"}]

StartLogFault ==
    \E choice \in LogFaultChoices, amount \in Amounts, serial_ok \in BOOLEAN :
        start_production(Products, choice, amount, serial_ok)
TickLogFault ==
    \E resp \in Readings \cup {NoReading}, log_failing \in SUBSET {1, 2} :
        update_process(resp, FALSE, FALSE, {}, log_failing)

NextLogFault == OpenBatch \/ Stop \/ StartLogFault \/ Pause \/ TickLogFault

SpecLogFault == Init /\ [][NextLogFault]_vars

\* the run with a tank that has no output line: station 1 runs the product
\* whose step draws from tank 6, alone or followed by a wired station 2; the
\* driver is allowed to raise in every call it gets
UnwiredChoices == {[row \in {1} |-> "unwired"], << "unwired", "single" >>}

StartUnwired ==
    \E choice \in UnwiredChoices, amount \in Amounts, serial_ok \in BOOLEAN :
        start_production(Products, choice, amount, serial_ok)
TickUnwired ==
    \E resp \in Readings \cup {NoReading}, raise_on \in BOOLEAN,
       raise_off \in BOOLEAN :
        update_process(resp, raise_on, raise_off, {}, {})

NextUnwired == OpenBatch \/ Stop \/ StartUnwired \/ Pause \/ TickUnwired

SpecUnwired == Init /\ [][NextUnwired]_vars

\* set_output on its own: calls for three wired tanks and an unwired one at
\* every station, either level, with a driver that may raise
OutputTanks == {1, 2, 3, GPIO_TANK_LIMIT + 1}

DriveLine ==
    /\ \E t \in OutputTanks, s \in 1..NumStations, on \in BOOLEAN,
          raises \in BOOLEAN :
          LET out == set_output(active_outputs, pin_high, t, s, on, raises)
          IN /\ active_outputs' = out.active
             /\ pin_high' = out.pins
    /\ last_op' = "set_output"
    /\ UNCHANGED << screen, timer, ser, stirrer_processes, stirrer_tables,
                    current_stirrer_index, paused_outputs, gpio_sim, log,
                    last_weight, queries >>
    /\ UNCHANGED runner_vars

SpecOutput == Init /\ [][DriveLine]_vars

\* the run with a driver that can fail in every call: station 1 runs the
\* two-step product, GPIO.output may raise in the ON call of a starting step,
\* in the OFF call of a completing step and, in a cleanup, for any of the
\* lines of CleanupKeys
CleanupChoices == [{1} -> {"double"}]
CleanupKeys == {<< 1, 1 >>, << 3, 1 >>}

OpenBatchCleanup == \E failing \in SUBSET CleanupKeys :
                        open_batch_production(failing)
StopCleanup == \E failing \in SUBSET CleanupKeys : stop_production(failing)
StartCleanup ==
    \E choice \in CleanupChoices, amount \in Amounts, serial_ok \in BOOLEAN :
        start_production(Products, choice, amount, serial_ok)
TickCleanup ==
    \E resp \in Readings \cup {NoReading}, raise_on \in BOOLEAN,
       raise_off \in BOOLEAN, failing \in SUBSET CleanupKeys :
        update_process(resp, raise_on, raise_off, failing, {})

NextCleanup ==
    OpenBatchCleanup \/ StopCleanup \/ StartCleanup \/ Pause \/ TickCleanup

SpecCleanup == Init /\ [][NextCleanup]_vars

\* the run under the conditions of its liveness: the operator selects one or
\* two stations with the one-step product, the serial port opens, a pause is
\* followed by a resume, Stop is pressed only on a run that has ended, and
\* the timer keeps firing ticks in which the instrument delivers the reading
\* the polled step waits for (a full scale for the baseline, an empty scale
\* afterwards)
LiveChoices == {<< "single" >>, << "single", "single" >>}

GoodReading ==
    IF Polls
    THEN LET proc_data == stirrer_processes[NthStirrer(StirrerIndex)]
         IN IF NeedsBaseline(proc_data.steps[proc_data.current_step + 1])
            THEN 100 ELSE 0
    ELSE 100

StartLive == \E choice \in LiveChoices, amount \in Amounts :
                start_production(Products, choice, amount, TRUE)
StopLive == stirrer_processes = EmptyMap /\ stop_production({})
ResumeLive == ~timer /\ toggle_pause({})
GoodTick == update_process(GoodReading, FALSE, FALSE, {}, {})

NextLive == OpenBatch \/ StopLive \/ StartLive \/ Pause \/ Tick

SpecLive ==
    Init /\ [][NextLive]_vars /\ SF_vars(GoodTick) /\ WF_vars(ResumeLive)

\* ------------------------------------------------------------------ main.py
\* Threads interleave between statements; each action below is one statement
\* (or a run of statements that touch no shared state) of the thread w.

\* the thread is running execute_process
Alive(w) == worker[w].pc \notin {"idle", "returned", "raised"}

\* the activation the thread is at
ActivationOf(f) == f.data[f.step][f.act]

\* execute_process returns result: the thread ends
Returns(w, result) ==
    worker' = [worker EXCEPT ![w] =
                  [IdleFrame EXCEPT !.pc = "returned", !.result = result]]

\* ProcessController.run_process_async: a thread is started on
\* execute_process; exclusive: the caller waits for the thread before it
\* starts another (run_process, or is_running() polled first)
run_process_async(w, data, exclusive) ==
    /\ ~Alive(w)
    /\ exclusive => \A w2 \in 1..MainWorkers : ~Alive(w2)
    /\ worker' = [worker EXCEPT ![w] =
                     [IdleFrame EXCEPT !.pc = "clear", !.data = data]]
    /\ halted' = halted \ {w}
    /\ UNCHANGED << stop_flag, tank_pins, stopper >>

\* execute_process: self.stop_flag.clear(), then load_process_data, which
\* raises for a missing file; an empty file raises ValueError
clear_stop_flag(w) ==
    /\ worker[w].pc = "clear"
    /\ stop_flag' = FALSE
    /\ worker' = [worker EXCEPT
                     ![w].pc = IF worker[w].data = << >> THEN "except"
                               ELSE "step_check",
                     ![w].step = 1]
    /\ UNCHANGED << tank_pins, stopper, halted >>

\* execute_process: the head of the loop over the steps
next_step(w) ==
    /\ worker[w].pc = "step_check"
    /\ IF worker[w].step > Len(worker[w].data) \/ stop_flag
       THEN Returns(w, "True")
       ELSE worker' = [worker EXCEPT ![w].pc = "act_check", ![w].act = 1]
    /\ UNCHANGED << stop_flag, tank_pins, stopper, halted >>

\* execute_process_step: the head of the loop over the activations, with
\* the tests that skip an activation
next_activation(w) ==
    /\ worker[w].pc = "act_check"
    /\ LET f == worker[w]
       IN IF f.act > Len(f.data[f.step]) \/ stop_flag
          THEN worker' = [worker EXCEPT ![w].pc = "step_check",
                                        ![w].step = f.step + 1]
          ELSE IF \/ ActivationOf(f).stirrer_num \notin TANK1_GPIO_PINS
                  \/ ActivationOf(f).weight <= 0
          THEN worker' = [worker EXCEPT ![w].act = f.act + 1]
          ELSE worker' = [worker EXCEPT ![w].pc = "high"]
    /\ UNCHANGED << stop_flag, tank_pins, stopper, halted >>

\* execute_process_step: GPIO.output(pin, GPIO.HIGH)
drive_high(w, raises) ==
    /\ worker[w].pc = "high"
    /\ IF raises
       THEN /\ worker' = [worker EXCEPT ![w].pc = "except"]
            /\ UNCHANGED tank_pins
       ELSE /\ tank_pins' = tank_pins \cup {ActivationOf(worker[w]).stirrer_num}
            /\ worker' = [worker EXCEPT ![w].pc = "connect"]
    /\ UNCHANGED << stop_flag, stopper, halted >>

\* wait_for_weight_target: start_time = time.time() and
\* rs485_available = self.serial_manager.connect()
connect(w, ok) ==
    /\ worker[w].pc = "connect"
    /\ worker' = [worker EXCEPT ![w].pc = "loop", ![w].elapsed = 0,
                                ![w].rs485_available = ok]
    /\ UNCHANGED << stop_flag, tank_pins, stopper, halted >>

\* a loop whose condition never ends it
TimedOutNever(elapsed) == FALSE

\* the negation of the loop condition time.time() - start_time < timeout
TimedOut(elapsed) == elapsed >= MainTimeout

\* a loop that returns from the function when the stop flag is set
AfterLoopReturn(stopped) == IF stopped THEN "disconnect" ELSE "low"

\* where every exit of the loop leads: the statements after the loop
AfterLoop(stopped) == "low"

\* the reading current_weight ends the wait for target_weight
TargetMet(current_weight, target_weight) ==
    \/ current_weight - target_weight <= MainTolerance
       /\ target_weight - current_weight <= MainTolerance
    \/ current_weight >= target_weight

\* wait_for_weight_target: one pass of the while loop; resp is what the
\* instrument answers if it is asked
wait_for_weight_target(w, resp) ==
    /\ worker[w].pc = "loop"
    /\ LET f == worker[w]
           target_weight == ActivationOf(f).weight
           current_weight == IF f.rs485_available THEN resp ELSE NoReading
           leaves ==
               \/ TimedOut(f.elapsed)
               \/ stop_flag
               \/ current_weight # NoReading
                  /\ TargetMet(current_weight, target_weight)
               \/ current_weight = NoReading
                  /\ f.elapsed * 10 >= target_weight
       IN IF leaves
          THEN worker' = [worker EXCEPT ![w].pc = AfterLoop(stop_flag)]
          ELSE worker' = [worker EXCEPT
                             ![w].elapsed = IF f.elapsed > MainTimeout
                                            THEN f.elapsed
                                            ELSE f.elapsed + 1]
    /\ UNCHANGED << stop_flag, tank_pins, stopper, halted >>

\* wait_for_weight_target: GPIO.output(pin, GPIO.LOW) after the loop
drive_low(w, raises) ==
    /\ worker[w].pc = "low"
    /\ IF raises
       THEN /\ worker' = [worker EXCEPT ![w].pc = "except"]
            /\ UNCHANGED tank_pins
       ELSE /\ tank_pins' = tank_pins \ {ActivationOf(worker[w]).stirrer_num}
            /\ worker' = [worker EXCEPT ![w].pc = "disconnect"]
    /\ UNCHANGED << stop_flag, stopper, halted >>

\* wait_for_weight_target: self.serial_manager.disconnect(), whose close()
\* is not guarded; then the next activation
disconnect(w, raises) ==
    /\ worker[w].pc = "disconnect"
    /\ IF worker[w].rs485_available /\ raises
       THEN worker' = [worker EXCEPT ![w].pc = "except"]
       ELSE worker' = [worker EXCEPT ![w].pc = "act_check",
                                     ![w].act = worker[w].act + 1]
    /\ UNCHANGED << stop_flag, tank_pins, stopper, halted >>

\* execute_process, except Exception: stop_all_tanks() sets the flag
except_stop(w) ==
    /\ worker[w].pc = "except"
    /\ stop_flag' = TRUE
    /\ worker' = [worker EXCEPT ![w].pc = "except_low", ![w].k = 1]
    /\ UNCHANGED << tank_pins, stopper, halted >>

\* ... and drives the pins LOW one by one; a GPIO.output that raises here
\* leaves execute_process by the exception; after the last pin, return False
except_low(w, raises) ==
    /\ worker[w].pc = "except_low"
    /\ IF worker[w].k > NumPins
       THEN Returns(w, "False") /\ UNCHANGED tank_pins
       ELSE IF raises
       THEN /\ worker' = [worker EXCEPT ![w] =
                             [IdleFrame EXCEPT !.pc = "raised"]]
            /\ UNCHANGED tank_pins
       ELSE /\ tank_pins' = tank_pins \ {worker[w].k}
            /\ worker' = [worker EXCEPT ![w].k = worker[w].k + 1]
    /\ UNCHANGED << stop_flag, stopper, halted >>

\* ProcessController.stop_process, called from another thread:
\* stop_all_tanks sets the flag ...
stop_all_tanks_set ==
    /\ stopper = 0
    /\ stop_flag' = TRUE
    /\ stopper' = 1
    /\ UNCHANGED << tank_pins, worker, halted >>

\* ... and drives the pins LOW one by one; it returns after the last pin
stop_all_tanks_low ==
    /\ stopper \in 1..NumPins
    /\ tank_pins' = tank_pins \ {stopper}
    /\ stopper' = IF stopper = NumPins THEN 0 ELSE stopper + 1
    /\ halted' = IF stopper = NumPins
                 THEN {w \in 1..MainWorkers : Alive(w)}
                 ELSE halted
    /\ UNCHANGED << stop_flag, worker >>

\* a step of thread w; gpio_raises: the GPIO.output of the step raises;
\* serial_raises: the close() of the step raises
WorkerStep(w, gpio_raises, serial_raises) ==
    \/ clear_stop_flag(w)
    \/ next_step(w)
    \/ next_activation(w)
    \/ drive_high(w, gpio_raises)
    \/ \E ok \in BOOLEAN : connect(w, ok)
    \/ \E resp \in MainReadings \cup {NoReading} : wait_for_weight_target(w, resp)
    \/ drive_low(w, gpio_raises)
    \/ disconnect(w, serial_raises)
    \/ except_stop(w)
    \/ except_low(w, gpio_raises)

\* the runner with one execute_process at a time and a thread that may call
\* stop_process() at any moment; the process file may be missing and closing
\* the serial port may raise; GPIO.output serves every call (mock_gpio, or
\* RPi.GPIO on the pins the module has set up)
RunMain ==
    /\ \E data \in MainProcesses : run_process_async(1, data, TRUE)
    /\ UNCHANGED << gui_vars, rs, imp >>
StepMain ==
    /\ \E serial_raises \in BOOLEAN : WorkerStep(1, FALSE, serial_raises)
    /\ UNCHANGED << gui_vars, rs, imp >>
StopMain ==
    /\ stop_all_tanks_set \/ stop_all_tanks_low
    /\ UNCHANGED << gui_vars, rs, imp >>

NextMain == RunMain \/ StepMain \/ StopMain

SpecMain == Init /\ [][NextMain]_vars

\* the runner with background workers that overlap: run_process_async may
\* be called while a worker is alive, stop_process() at any moment; the
\* process file has one activation and no call raises
AsyncProcess == << << Activation(1, 20) >> >>

RunAsync ==
    /\ \E w \in 1..MainWorkers : run_process_async(w, AsyncProcess, FALSE)
    /\ UNCHANGED << gui_vars, rs, imp >>
StepAsync ==
    /\ \E w \in 1..MainWorkers : WorkerStep(w, FALSE, FALSE)
    /\ UNCHANGED << gui_vars, rs, imp >>

NextAsync == RunAsync \/ StepAsync \/ StopMain

SpecAsync == Init /\ [][NextAsync]_vars

\* the runner of SpecMain with a scheduler that keeps running the worker
\* thread while it is alive
SpecMainLive == Init /\ [][NextMain]_vars /\ WF_vars(StepMain)

\* -------------------------------------------------------------------- rs.py
\* the targets of the steps of process_data.json, tenths of a kg
RsTargets == << 20, 20, 40 >>

\* weights the instrument answers rs.py with, tenths of a kg
RsReadings == {0, 60, 80, 100}

\* read_weight(ser, channel) or 0.0: None and 0.0 both give 0.0
RsBaseline(first) == IF first = NoReading \/ first = 0 THEN 0 ELSE first

\* run_process: the file is read, the port is opened, the first step begins
rs_run_process ==
    /\ rs.pc = "idle"
    /\ rs' = [RsIdle EXCEPT !.pc = "first", !.step = 1]
    /\ UNCHANGED << gui_vars, main_vars, imp >>

\* prev_weight = read_weight(ser, channel) or 0.0.  first_reading records
\* the first reading of the step that was not None
rs_prev_weight ==
    /\ rs.pc = "first"
    /\ \E resp \in RsReadings \cup {NoReading} :
          rs' = [rs EXCEPT !.pc = "loop",
                           !.prev_weight = RsBaseline(resp),
                           !.first_reading = resp]
    /\ UNCHANGED << gui_vars, main_vars, imp >>

\* one pass of the while True loop
rs_poll ==
    /\ rs.pc = "loop"
    /\ \E current \in RsReadings \cup {NoReading} :
          IF current = NoReading THEN UNCHANGED rs
          ELSE LET dispensed == rs.prev_weight - current
                   first == IF rs.first_reading = NoReading THEN current
                            ELSE rs.first_reading
               IN IF dispensed >= RsTargets[rs.step]
                  THEN IF rs.step < Len(RsTargets)
                       THEN rs' = [RsIdle EXCEPT !.pc = "first",
                                                 !.step = rs.step + 1]
                       ELSE rs' = [RsIdle EXCEPT !.pc = "done"]
                  ELSE rs' = [rs EXCEPT !.dispensed = dispensed,
                                        !.first_reading = first]
    /\ UNCHANGED << gui_vars, main_vars, imp >>

NextRs == rs_run_process \/ rs_prev_weight \/ rs_poll

SpecRs == Init /\ [][NextRs]_vars

\* ------------------------------------------------------------------- imp.py
\* the targets of the tank1 activations of process_data.json whose combo has
\* a pin in combo_pins, in the order main meets them, tenths of a kg
ImpTargets == << 20, 20, 40 >>

\* weights the instrument answers imp.py with, tenths of a kg
ImpReadings == {0, 60, 80, 100}

\* the script starts: RPi.GPIO was imported or not, the port is opened
imp_main ==
    /\ imp.pc = "idle"
    /\ \E gpio_available \in BOOLEAN :
          imp' = [ImpIdle EXCEPT !.pc = "activate", !.act = 1,
                                 !.gpio_available = gpio_available]
    /\ UNCHANGED << gui_vars, main_vars, rs >>

\* Activate GPIO: GPIO.output(pin, GPIO.HIGH) if gpio_available
imp_activate ==
    /\ imp.pc = "activate"
    /\ imp' = [imp EXCEPT !.pc = "initial", !.pin = imp.gpio_available,
                          !.initial_weight = NoReading, !.diff = 0]
    /\ UNCHANGED << gui_vars, main_vars, rs >>

\* Get initial weight: while initial_weight is None, one pass
imp_initial_weight ==
    /\ imp.pc = "initial"
    /\ \E resp \in ImpReadings \cup {NoReading} :
          IF resp = NoReading THEN UNCHANGED imp
          ELSE imp' = [imp EXCEPT !.pc = "wait", !.initial_weight = resp]
    /\ UNCHANGED << gui_vars, main_vars, rs >>

\* Keep reading until the weight drop reaches the target: one pass
imp_wait ==
    /\ imp.pc = "wait"
    /\ \E current_weight \in ImpReadings \cup {NoReading} :
          IF current_weight = NoReading THEN UNCHANGED imp
          ELSE LET diff == imp.initial_weight - current_weight
               IN imp' = [imp EXCEPT
                             !.diff = diff,
                             !.pc = IF diff >= ImpTargets[imp.act]
                                    THEN "deactivate" ELSE "wait"]
    /\ UNCHANGED << gui_vars, main_vars, rs >>

\* Deactivate GPIO: GPIO.output(pin, GPIO.LOW), then the next activation
imp_deactivate ==
    /\ imp.pc = "deactivate"
    /\ imp' = [imp EXCEPT !.pin = FALSE,
                          !.pc = IF imp.act < Len(ImpTargets) THEN "activate"
                                 ELSE "done",
                          !.act = IF imp.act < Len(ImpTargets)
                                  THEN imp.act + 1 ELSE imp.act]
    /\ UNCHANGED << gui_vars, main_vars, rs >>

NextImp ==
    imp_main \/ imp_activate \/ imp_initial_weight \/ imp_wait
       \/ imp_deactivate

SpecImp == Init /\ [][NextImp]_vars

\* =================================================================== claims
\* the current step of station s, when it has one
HasCurrent(procs, s) ==
    /\ s \in DOMAIN procs
    /\ procs[s].current_step < Len(procs[s].steps)
Current(procs, s) == procs[s].steps[procs[s].current_step + 1]

\* station s is on a Dispensing step that draws from tank t
Drawing(t, s) ==
    /\ HasCurrent(stirrer_processes, s)
    /\ Current(stirrer_processes, s).status = "Dispensing"
    /\ Current(stirrer_processes, s).tank_number = t

\* the station the next tick polls
Polled == NthStirrer(StirrerIndex)

\* stop_process ran in this step
StopProcessRan ==
    /\ last_op' \in {"stop", "open_batch", "tick"}
    /\ timer' = FALSE
    /\ ser' = "None"
    /\ stirrer_processes' = EmptyMap

\* C1: whenever the tick timer is not running (before a start, paused,
\* stopped, completed, aborted) no output line is asserted.
C1_FailSafe == ~timer => (active_outputs = {} /\ pin_high = {})

\* a paused run whose outputs were on when the operator paused it
C1_Witness == last_op = "pause" /\ ~timer /\ paused_outputs # {}

\* C2: a step in which stop_process runs leaves none of the outputs asserted
\* that were asserted before it, whichever station or step owned them.
C2_StopDeassertsAll ==
    [][StopProcessRan =>
          \A k \in active_outputs : k \notin active_outputs' /\ k \notin pin_high'
      ]_vars

\* the operator stopped the run while station 2 was drawing its second
\* ingredient through a wired line, without a pause in between
C2_Witness ==
    /\ last_op = "stop"
    /\ paused_outputs = {}
    /\ active_outputs = {}
    /\ <<2, 2>> \in DOMAIN log
    /\ log[<<2, 2>>].status = "Dispensing"
    /\ GpioMapped(log[<<2, 2>>].tank_number, 2)

C4_DispensedNonNegative ==
    \A s \in DOMAIN stirrer_processes :
        \A i \in 1..Len(stirrer_processes[s].steps) :
            stirrer_processes[s].steps[i].dispensed_weight >= 0

\* a reading above the baseline was processed: the raw difference shown in
\* the table is negative and the step's dispensed weight is 0
C4_Witness ==
    \E s \in DOMAIN stirrer_processes \cap DOMAIN stirrer_tables :
        \E i \in 1..Len(stirrer_processes[s].steps) :
            /\ stirrer_tables[s][i].dispensed < 0
            /\ stirrer_processes[s].steps[i].status = "Dispensing"
            /\ stirrer_processes[s].steps[i].dispensed_weight = 0

\* C5: a tick never changes the baseline of a step that is Dispensing or
\* Complete (the baseline is set once, by the first successful reading).
C5_BaselineSetOnce ==
    [][last_op' = "tick" =>
          \A s \in DOMAIN stirrer_processes \cap DOMAIN stirrer_processes' :
              \A i \in 1..Len(stirrer_processes[s].steps) :
                  stirrer_processes[s].steps[i].status \in {"Dispensing", "Complete"}
                  => stirrer_processes'[s].steps[i].start_weight
                        = stirrer_processes[s].steps[i].start_weight
      ]_vars

\* C6: a reading r for a Dispensing step with baseline b and target g
\* completes the step iff b - r >= g; otherwise the step stays Dispensing with
\* dispensed = max(0, b - r) and progress = min(100, dispensed / g * 100).
C6_ProgressFromClamped ==
    [][\A r \in Readings :
          (/\ Polls
           /\ Current(stirrer_processes, Polled).status = "Dispensing"
           /\ update_process(r, FALSE, FALSE, {}, {}))
          => LET s == Polled
                 i == stirrer_processes[s].current_step + 1
                 b == stirrer_processes[s].steps[i].start_weight
                 g == stirrer_processes[s].steps[i].target_weight
                 after == stirrer_processes'[s].steps[i]
                 d == IF b - r > 0 THEN b - r ELSE 0
             IN /\ after.status = "Complete" <=> b - r >= g
                /\ b - r < g =>
                      /\ after.status = "Dispensing"
                      /\ after.dispensed_weight = d
                      /\ stirrer_tables'[s][i].progress
                            = (IF (d * 100) \div g < 100
                               THEN (d * 100) \div g ELSE 100)
      ]_vars

C8_Scenario ==
    [][(1 \in DOMAIN stirrer_processes /\ 1 \in DOMAIN stirrer_processes'
        /\ stirrer_processes[1].steps[1].target_weight = 20)
       => LET st == stirrer_processes[1].steps[1]
              after == stirrer_processes'[1].steps[1]
              at100 == st.status = "Dispensing" /\ st.start_weight = 100
          IN /\ (st.status = "Waiting" /\ update_process(100, FALSE, FALSE, {}, {}))
                => (after.start_weight = 100 /\ after.status = "Dispensing"
                    /\ after.dispensed_weight = 0)
             /\ (at100 /\ update_process(95, FALSE, FALSE, {}, {}))
                => (after.start_weight = 100 /\ after.status = "Dispensing"
                    /\ after.dispensed_weight = 5)
             /\ (at100 /\ update_process(83, FALSE, FALSE, {}, {}))
                => (after.start_weight = 100 /\ after.status = "Dispensing"
                    /\ after.dispensed_weight = 17)
             /\ (at100 /\ update_process(79, FALSE, FALSE, {}, {}))
                => (after.start_weight = 100 /\ after.status = "Complete"
                    /\ after.dispensed_weight = 21
                    /\ <<1, 1>> \notin active_outputs'
                    /\ <<1, 1>> \notin pin_high')
      ]_vars

\* the scenario's end: baseline 10.0, 2.1 kg dispensed, Complete, line off
C8_Witness ==
    /\ last_op = "tick"
    /\ 1 \in DOMAIN stirrer_processes
    /\ stirrer_processes[1].steps[1].start_weight = 100
    /\ stirrer_processes[1].steps[1].dispensed_weight = 21
    /\ stirrer_processes[1].steps[1].status = "Complete"
    /\ stirrer_tables[1][1].dispensed = 21
    /\ active_outputs = {}

\* C9: a tick whose weight query returns no reading changes nothing: steps,
\* stations, the polled station, the asserted outputs, the table and the log
\* stay as they were, in the Waiting and in the Dispensing state alike.
C9_NoReadingNoChange ==
    [][(Polls /\ update_process(NoReading, FALSE, FALSE, {}, {}))
       => /\ UNCHANGED << stirrer_processes, stirrer_tables, active_outputs,
                          pin_high, log, timer, ser, paused_outputs >>
          /\ StirrerIndex' = StirrerIndex
          /\ Polled' = Polled
      ]_vars

\* a tick ran while station 2 was Dispensing with its line on (a no-reading
\* tick leads from this state back into it)
C9_Witness ==
    /\ last_op = "tick"
    /\ timer
    /\ Polls
    /\ Polled = 2
    /\ Current(stirrer_processes, 2).status = "Dispensing"
    /\ Current(stirrer_processes, 2).dispensed_weight > 0
    /\ active_outputs # {}

\* C10: resume restarts the timer and switches on exactly the outputs that
\* pause recorded and whose station is still on a Dispensing step drawing
\* from that tank; nothing else is switched on.
C10_ResumeRestores ==
    [][last_op' = "resume" =>
          /\ timer'
          /\ active_outputs' =
                active_outputs \cup {k \in paused_outputs : Drawing(k[1], k[2])}
          /\ \A k \in active_outputs' : k \in active_outputs \/ k \in paused_outputs
      ]_vars

\* the run was resumed and a recorded output is on again
C10_Witness ==
    /\ last_op = "resume"
    /\ timer
    /\ active_outputs # {}
    /\ \A k \in active_outputs : Drawing(k[1], k[2])

\* C11: stations are worked in ascending station-id order: a station has a
\* step that has left Waiting only when every selected station with a lower
\* id is Complete, with every one of its steps Complete.
C11_AscendingOrder ==
    \A s \in DOMAIN stirrer_processes :
        (\E i \in 1..Len(stirrer_processes[s].steps) :
            stirrer_processes[s].steps[i].status # "Waiting")
        => \A s2 \in DOMAIN stirrer_processes :
              s2 < s =>
                 /\ stirrer_processes[s2].status = "Complete"
                 /\ \A j \in 1..Len(stirrer_processes[s2].steps) :
                       stirrer_processes[s2].steps[j].status = "Complete"

\* C12: Complete is terminal: a tick, a pause or a resume leaves every field
\* of a step that is Complete as it was, for as long as the run's state is
\* kept.
C12_CompleteFrozen ==
    [][last_op' \in {"tick", "pause", "resume"} =>
          \A s \in DOMAIN stirrer_processes \cap DOMAIN stirrer_processes' :
              \A i \in 1..Len(stirrer_processes[s].steps) :
                  stirrer_processes[s].steps[i].status = "Complete"
                  => stirrer_processes'[s].steps[i]
                        = stirrer_processes[s].steps[i]
      ]_vars

\* station 1 completed its first step and a later tick has started the
\* second: ticks have run with a Complete step in the run
C12_Witness ==
    /\ last_op = "tick"
    /\ 1 \in DOMAIN stirrer_processes
    /\ Len(stirrer_processes[1].steps) = 2
    /\ stirrer_processes[1].steps[1].status = "Complete"
    /\ stirrer_processes[1].steps[2].status = "Dispensing"
    /\ stirrer_processes[1].steps[2].start_weight = 100

\* C13 as stated: a tick never lowers the dispensed weight of a step that is
\* Dispensing, whatever the instrument reads.
C13_DispensedMonotone ==
    [][last_op' = "tick" =>
          \A s \in DOMAIN stirrer_processes \cap DOMAIN stirrer_processes' :
              \A i \in 1..Len(stirrer_processes[s].steps) :
                  stirrer_processes[s].steps[i].status = "Dispensing"
                  => stirrer_processes'[s].steps[i].dispensed_weight
                        >= stirrer_processes[s].steps[i].dispensed_weight
      ]_vars

\* C13 amended: a tick whose reading is not above the step's previous
\* successful reading does not lower the dispensed weight of the Dispensing
\* step it polls.
C13_MonotoneWhenNotRising ==
    [][\A r \in Readings :
          (/\ Polls
           /\ Current(stirrer_processes, Polled).status = "Dispensing"
           /\ r <= last_weight
           /\ update_process(r, FALSE, FALSE, {}, {}))
          => LET s == Polled
                 i == stirrer_processes[s].current_step + 1
             IN stirrer_processes'[s].steps[i].dispensed_weight
                   >= stirrer_processes[s].steps[i].dispensed_weight
      ]_vars

\* a 4.0 kg step has drawn 2.0 kg and is still Dispensing: a falling reading
\* was processed after the baseline
C13_Witness ==
    /\ last_op = "tick"
    /\ \E s \in DOMAIN stirrer_processes :
          /\ stirrer_processes[s].steps[1].status = "Dispensing"
          /\ stirrer_processes[s].steps[1].target_weight = 40
          /\ stirrer_processes[s].steps[1].start_weight = 100
          /\ stirrer_processes[s].steps[1].dispensed_weight = 20

\* C14: when a Dispensing step is polled with a reading that is not above its
\* previous successful reading, the progress value the tick computes is not
\* below the previous one and is at most 100.
C14_ProgressMonotone ==
    [][\A r \in Readings :
          (/\ Polls
           /\ Current(stirrer_processes, Polled).status = "Dispensing"
           /\ r <= last_weight
           /\ update_process(r, FALSE, FALSE, {}, {}))
          => LET s == Polled
                 i == stirrer_processes[s].current_step + 1
             IN /\ stirrer_tables'[s][i].progress >= stirrer_tables[s][i].progress
                /\ stirrer_tables'[s][i].progress <= 100
      ]_vars

\* a 4.0 kg step stands at 50 % after the readings 10.0 and 8.0 kg
C14_Witness ==
    /\ last_op = "tick"
    /\ last_weight = 80
    /\ \E s \in DOMAIN stirrer_tables :
          /\ stirrer_tables[s][1].status = "Dispensing"
          /\ stirrer_tables[s][1].progress = 50

\* C15 as stated: the tick that captures a step's baseline makes no weight
\* comparison for it: it records no dispensed weight and no progress for the
\* step, so the log has no entry for the step after that tick.
C15_CaptureTickNoComparison ==
    [][\A r \in Readings :
          (/\ Polls
           /\ Current(stirrer_processes, Polled).status = "Waiting"
           /\ update_process(r, FALSE, FALSE, {}, {}))
          => << Polled, stirrer_processes[Polled].current_step + 1 >>
                \notin DOMAIN log'
      ]_vars

\* C15 amended: the tick that captures a step's baseline compares the reading
\* with the baseline it has just captured: it records 0 dispensed and 0 %
\* progress for the step, leaves it Dispensing and does not complete it.
C15_CaptureTickZeroDelta ==
    [][\A r \in Readings :
          (/\ Polls
           /\ Current(stirrer_processes, Polled).status = "Waiting"
           /\ update_process(r, FALSE, FALSE, {}, {}))
          => LET s == Polled
                 i == stirrer_processes[s].current_step + 1
                 after == stirrer_processes'[s].steps[i]
             IN /\ after.start_weight = r
                /\ after.status = "Dispensing"
                /\ after.dispensed_weight = 0
                /\ stirrer_processes'[s].current_step
                      = stirrer_processes[s].current_step
                /\ stirrer_tables'[s][i]
                      = [dispensed |-> 0, progress |-> 0,
                         status |-> "Dispensing"]
                /\ << s, i >> \in DOMAIN log'
                /\ log'[<< s, i >>].dispensed_weight_kg = 0
                /\ log'[<< s, i >>].progress_percent = 0
                /\ log'[<< s, i >>].status = "Dispensing"
      ]_vars

\* the capture tick of station 1's first step has run: baseline 10.0 kg and
\* a log entry with 0 dispensed
C15_Witness ==
    /\ last_op = "tick"
    /\ last_weight = 100
    /\ << 1, 1 >> \in DOMAIN log
    /\ log[<< 1, 1 >>].status = "Dispensing"
    /\ log[<< 1, 1 >>].dispensed_weight_kg = 0
    /\ 1 \in DOMAIN stirrer_processes
    /\ stirrer_processes[1].steps[1].start_weight = 100
    /\ stirrer_processes[1].steps[1].status = "Dispensing"

\* the polled step's line is wired and driven through the hardware driver
DriverCall ==
    /\ Polls
    /\ ~gpio_sim
    /\ GpioMapped(Current(stirrer_processes, Polled).tank_number, Polled)

\* C16: a tick in which the output driver raises is a no-op retry: when the
\* ON call of a Waiting step raises, or the OFF call of a completing step
\* raises, the step's state after the tick is what it was before the tick.
C16_DriverFailureIsRetry ==
    [][\A r \in Readings :
          LET s == Polled
              i == stirrer_processes[s].current_step + 1
              key == << stirrer_processes[s].steps[i].tank_number, s >>
          IN /\ (/\ DriverCall
                 /\ stirrer_processes[s].steps[i].status = "Waiting"
                 /\ update_process(r, TRUE, FALSE, {}, {})
                 /\ key \notin active_outputs')
                => stirrer_processes' = stirrer_processes
             /\ (/\ DriverCall
                 /\ update_process(r, FALSE, TRUE, {}, {})
                 /\ stirrer_processes'[s].steps[i].status = "Complete"
                 /\ key \in active_outputs')
                => stirrer_processes' = stirrer_processes
      ]_vars

\* the next tick calls stop_process: no run, every station done, or the
\* channel computation of the polled step raises
TickStops ==
    /\ timer
    /\ \/ stirrer_processes = EmptyMap
       \/ StirrerIndex >= Cardinality(DOMAIN stirrer_processes)
       \/ LET proc_data == stirrer_processes[Polled]
          IN /\ proc_data.status # "Complete"
             /\ proc_data.current_step < Len(proc_data.steps)
             /\ ChannelRaises(
                    proc_data.steps[proc_data.current_step + 1].tank_number)

\* C17: every step that calls stop_process (Stop, leaving for the batch
\* screen, a tick that ends or aborts the run) leaves the timer stopped, no
\* StationRun state and no weight-channel connection; and from then until the
\* next start_production no step creates or changes StationRun state or
\* asserts an output.
C17_StopDiscards ==
    [][/\ (\/ last_op' \in {"stop", "open_batch"}
           \/ (last_op' = "tick" /\ TickStops))
          => (~timer' /\ stirrer_processes' = EmptyMap /\ ser' = "None")
       /\ (stirrer_processes = EmptyMap /\ last_op' # "start")
          => /\ stirrer_processes' = EmptyMap
             /\ stirrer_tables' = EmptyMap
             /\ ser' = "None"
             /\ active_outputs' \subseteq active_outputs
             /\ pin_high' \subseteq pin_high
      ]_vars

\* a tick ended the run and the operator then pressed the pause button of
\* the monitor screen: the timer runs again, with no run and no output
C17_Witness ==
    /\ last_op = "resume"
    /\ timer
    /\ stirrer_processes = EmptyMap
    /\ ser = "None"
    /\ active_outputs = {}
    /\ current_stirrer_index >= 1

\* the positions of the lines of recipe whose share of batch is > 0
Kept(recipe, batch) ==
    {j \in 1..Len(recipe) : recipe[j].percentage * batch > 0}

\* the position in recipe of the k-th such line
KeptAt(recipe, batch, k) ==
    CHOOSE j \in Kept(recipe, batch) :
        Cardinality({x \in Kept(recipe, batch) : x < j}) = k - 1

\* C18: start_production resolves a recipe into exactly one step per line
\* whose percentage / 100 * batch is > 0, in recipe order, with that value as
\* target (kept in tenths of a kg), dispensed 0 and status Waiting; 0 % lines
\* give no step.  Batch 100 with (40 %, tank 2), (60 %, tank 3) gives the
\* steps (tank 2, 40.0 kg), (tank 3, 60.0 kg).
C18_ResolverSteps ==
    [][last_op' = "start" =>
          \A s \in DOMAIN stirrer_processes' :
              LET p == stirrer_processes'[s]
                  recipe == ResolverFiles[p.product]
                  batch == p.total_amount
              IN /\ batch > 0
                 /\ Len(p.steps) = Cardinality(Kept(recipe, batch))
                 /\ \A k \in 1..Len(p.steps) :
                       /\ p.steps[k].target_weight * 10
                             = recipe[KeptAt(recipe, batch, k)].percentage * batch
                       /\ p.steps[k].target_weight > 0
                       /\ p.steps[k].dispensed_weight = 0
                       /\ p.steps[k].status = "Waiting"
                 /\ (recipe = << Line(40, 2), Line(60, 3) >> /\ batch = 100)
                    => /\ Len(p.steps) = 2
                       /\ p.steps[1].tank_number = 2
                       /\ p.steps[1].target_weight = 400
                       /\ p.steps[2].tank_number = 3
                       /\ p.steps[2].target_weight = 600
      ]_vars

\* a run was started on a three-line recipe whose middle line is 0 %: two
\* steps, 20.0 kg then 30.0 kg of a 50 kg batch
C18_Witness ==
    /\ last_op = "start"
    /\ 1 \in DOMAIN stirrer_processes
    /\ stirrer_processes[1].product
          = << Line(40, 2), LineNoTank(0), Line(60, 3) >>
    /\ stirrer_processes[1].total_amount = 50
    /\ Len(stirrer_processes[1].steps) = 2
    /\ stirrer_processes[1].steps[2].target_weight = 300

\* C20: a step draws from the tank its recipe line declares; a line without
\* a tank gets the line's position in the recipe (index + 1), where the
\* 0 % lines that gave no step are counted too.
C20_TankOfLine ==
    \A s \in DOMAIN stirrer_processes :
        LET p == stirrer_processes[s]
            recipe == ResolverFiles[p.product]
            batch == p.total_amount
        IN \A k \in 1..Len(p.steps) :
              LET j == KeptAt(recipe, batch, k)
              IN p.steps[k].tank_number =
                    (IF recipe[j].has_tank THEN recipe[j].tank ELSE j)

\* a run on a recipe whose first line is 0 % and whose second line declares
\* no tank: its only step draws from tank 2 and has been started
C20_Witness ==
    /\ last_op = "tick"
    /\ 1 \in DOMAIN stirrer_processes
    /\ stirrer_processes[1].product = << Line(0, 2), LineNoTank(40) >>
    /\ Len(stirrer_processes[1].steps) = 1
    /\ stirrer_processes[1].steps[1].tank_number = 2
    /\ stirrer_processes[1].steps[1].status = "Dispensing"

\* C19: a recipe line whose tank is outside 1..NUM_TANKS makes the resolver
\* fail and build no StationRun, so every step of every StationRun draws
\* from a tank in 1..NUM_TANKS.
C19_TankInRange ==
    \A s \in DOMAIN stirrer_processes :
        \A i \in 1..Len(stirrer_processes[s].steps) :
            stirrer_processes[s].steps[i].tank_number \in 1..NUM_TANKS

\* C21: start_production leaves the log without any step entry, and while a
\* run exists every entry of the log was written by a tick of that run: it
\* belongs to a step of the run that has left Waiting and carries that
\* step's target and tank.
C21_LogResetAtStart ==
    [][/\ last_op' = "start" => log' = EmptyMap
       /\ stirrer_processes' # EmptyMap =>
             \A k \in DOMAIN log' :
                 /\ k[1] \in DOMAIN stirrer_processes'
                 /\ k[2] \in 1..Len(stirrer_processes'[k[1]].steps)
                 /\ LET step == stirrer_processes'[k[1]].steps[k[2]]
                    IN /\ step.status # "Waiting"
                       /\ log'[k].target_weight_kg = step.target_weight
                       /\ log'[k].tank_number = step.tank_number
      ]_vars

\* a run was started after an earlier run had completed station 1 and
\* logged it
C21_Witness ==
    /\ last_op = "start"
    /\ timer
    /\ stirrer_processes # EmptyMap
    /\ current_stirrer_index = 1
    /\ log = EmptyMap

\* C22: update_dispensing_log upserts by (station, step): after a call for a
\* key the log holds the entry of that key with the call's target, amount
\* and status and with progress = dispensed / target * 100 (0 when the target
\* is 0), it has no new key but that one, and every other entry is as it was.
C22_LogUpsert ==
    [][\A k \in LogKeys, target \in LogTargets, dispensed \in LogDispensed,
         status \in LogStatuses :
          (/\ last_op' = "log"
           /\ log' = update_dispensing_log(log, k[1], k[2], target, dispensed,
                                           status, 1))
          => /\ DOMAIN log' = DOMAIN log \cup {k}
             /\ log'[k].target_weight_kg = target
             /\ log'[k].dispensed_weight_kg = dispensed
             /\ log'[k].status = status
             /\ target > 0 => log'[k].progress_percent * target = dispensed * 100
             /\ target <= 0 => log'[k].progress_percent = 0
             /\ \A k2 \in DOMAIN log \ {k} : log'[k2] = log[k2]
      ]_vars

\* both steps are in the log: step 1 was logged with target 0 (progress 0),
\* step 2 with 2.0 kg of 4.0 kg (50 %)
C22_Witness ==
    /\ last_op = "log"
    /\ DOMAIN log = LogKeys
    /\ log[<< 1, 1 >>].target_weight_kg = 0
    /\ log[<< 1, 1 >>].dispensed_weight_kg = 20
    /\ log[<< 1, 1 >>].progress_percent = 0
    /\ log[<< 1, 2 >>].target_weight_kg = 40
    /\ log[<< 1, 2 >>].progress_percent = 50

\* C23: a failing run-log write during a tick never aborts dispensing: for
\* every reading and every non-empty set of failing writes, the polled step
\* takes the baseline, the dispensed amount, the completion decision and the
\* output drive of a tick whose writes succeed, the timer keeps running and
\* the run is kept; when both writes fail the log is left as it was.
C23_LogFailureKeepsDispensing ==
    [][\A r \in Readings, lf \in (SUBSET {1, 2}) \ {{}} :
          (Polls /\ ser = "open" /\ update_process(r, FALSE, FALSE, {}, lf))
          => LET s == NthStirrer(StirrerIndex)
                 k == stirrer_processes[s].current_step + 1
                 step == stirrer_processes[s].steps[k]
                 key == << step.tank_number, s >>
                 capture == step.start_weight = 0
                 b == IF capture THEN r ELSE step.start_weight
                 d == b - r
                 done == d >= step.target_weight
                 step2 == stirrer_processes'[s].steps[k]
             IN /\ timer' /\ ser' = "open"
                /\ DOMAIN stirrer_processes' = DOMAIN stirrer_processes
                /\ step2.status = IF done THEN "Complete" ELSE "Dispensing"
                /\ step2.dispensed_weight = IF d > 0 THEN d ELSE 0
                /\ stirrer_processes'[s].current_step
                      = IF done THEN k ELSE k - 1
                /\ stirrer_tables'[s][k].status = step2.status
                /\ stirrer_tables'[s][k].dispensed = d
                /\ done => key \notin active_outputs'
                /\ (capture /\ ~done) => key \in active_outputs'
                /\ (~capture /\ ~done) => active_outputs' = active_outputs
                /\ lf = {1, 2} => log' = log
      ]_vars

\* station 1 went through both steps while no write reached the log
C23_Witness ==
    /\ timer
    /\ last_op = "tick"
    /\ 1 \in DOMAIN stirrer_processes
    /\ stirrer_processes[1].status = "Complete"
    /\ \A k \in 1..2 : stirrer_processes[1].steps[k].status = "Complete"
    /\ log = EmptyMap

\* C24: for a pair with no mapped line set_output changes neither the
\* asserted set nor a pin, whatever the driver would do; a tick on a step
\* that uses such a tank leaves the outputs alone, is the same tick when the
\* driver raises, keeps the timer running, and moves the step from Waiting
\* to Dispensing at the first reading and to Complete at the reading that is
\* the target below the baseline.
C24_UnmappedIsNoOp ==
    [][/\ \A t \in (GPIO_TANK_LIMIT + 1)..NUM_TANKS, s \in 1..NUM_STIRRERS,
            on \in BOOLEAN, raises \in BOOLEAN :
            set_output(active_outputs, pin_high, t, s, on, raises)
               = [active |-> active_outputs, pins |-> pin_high]
       /\ \A r \in Readings :
            (/\ Polls /\ ser = "open"
             /\ Current(stirrer_processes, Polled).tank_number > GPIO_TANK_LIMIT
             /\ \E raise_on \in BOOLEAN, raise_off \in BOOLEAN :
                   update_process(r, raise_on, raise_off, {}, {}))
            => LET s == NthStirrer(StirrerIndex)
                   k == stirrer_processes[s].current_step + 1
                   step == stirrer_processes[s].steps[k]
                   b == IF step.start_weight = 0 THEN r ELSE step.start_weight
                   done == b - r >= step.target_weight
                   step2 == stirrer_processes'[s].steps[k]
               IN /\ active_outputs' = active_outputs
                  /\ pin_high' = pin_high
                  /\ timer'
                  /\ step.status = "Waiting" => step2.status = "Dispensing"
                  /\ step.status = "Dispensing" =>
                        step2.status = IF done THEN "Complete"
                                       ELSE "Dispensing"
                  /\ update_process(r, TRUE, TRUE, {}, {})
      ]_vars

\* on the driver, the step of tank 6 is Complete, no line was asserted for
\* it and the wired station 2 is now drawing
C24_Witness ==
    /\ ~gpio_sim /\ timer
    /\ DOMAIN stirrer_processes = {1, 2}
    /\ stirrer_processes[1].steps[1].tank_number = 6
    /\ stirrer_processes[1].steps[1].status = "Complete"
    /\ stirrer_processes[1].status = "Complete"
    /\ stirrer_processes[2].steps[1].status = "Dispensing"
    /\ active_outputs = {<< 1, 2 >>}

\* C25: set_output is idempotent: after a call set_output(t, s, on) that the
\* driver served, the same call again leaves the asserted set and the pins
\* exactly as the first call left them; asserting a line that is asserted
\* and deasserting a line that is not asserted change nothing.
C25_SetOutputIdempotent ==
    [][\A t \in OutputTanks, s \in 1..NumStations, on \in BOOLEAN :
          LET same == [active |-> active_outputs, pins |-> pin_high]
              once == set_output(active_outputs, pin_high, t, s, on, FALSE)
              asserted == << t, s >> \in active_outputs
                          /\ (gpio_sim \/ << t, s >> \in pin_high)
              released == << t, s >> \notin active_outputs
                          /\ << t, s >> \notin pin_high
          IN /\ (active_outputs' = once.active /\ pin_high' = once.pins)
                => set_output(active_outputs', pin_high', t, s, on, FALSE)
                      = [active |-> active_outputs', pins |-> pin_high']
             /\ (on /\ asserted) => once = same
             /\ (~on /\ released) => once = same
      ]_vars

\* on the driver, two lines of station 1 are asserted: a further ON call for
\* either meets an asserted line
C25_Witness ==
    /\ last_op = "set_output"
    /\ ~gpio_sim
    /\ active_outputs = {<< 1, 1 >>, << 2, 1 >>}
    /\ pin_high = {<< 1, 1 >>, << 2, 1 >>}

\* C26: whatever lines the driver fails to switch off in a cleanup (Stop, a
\* tick that ends the run, leaving for the batch screen), every other mapped
\* line that was asserted is switched off and leaves the asserted set.
C26_CleanupPastFailures ==
    [][\A failing \in SUBSET CleanupKeys :
          (\/ stop_production(failing)
           \/ open_batch_production(failing)
           \/ (TickStops
               /\ update_process(NoReading, FALSE, FALSE, failing, {})))
          => \A k \in active_outputs \cup pin_high :
                (GpioMapped(k[1], k[2]) /\ (gpio_sim \/ k \notin failing))
                => (k \notin active_outputs' /\ k \notin pin_high')
      ]_vars

\* on the driver, Stop came while step 2 was drawing and the line of step 1
\* was still asserted; the line of step 1 could not be switched off, the
\* line of step 2 is off
C26_Witness ==
    /\ last_op = "stop" /\ ~gpio_sim
    /\ << 1, 2 >> \in DOMAIN log
    /\ log[<< 1, 2 >>].status = "Dispensing"
    /\ active_outputs = {<< 1, 1 >>}
    /\ pin_high = {<< 1, 1 >>}

\* the tick on reading r makes a hardware ON call that raises: the polled
\* step captures its baseline, its line is mapped and not yet asserted
FailedOn(r) ==
    /\ DriverCall /\ ser = "open"
    /\ NeedsBaseline(Current(stirrer_processes, Polled))
    /\ << Current(stirrer_processes, Polled).tank_number, Polled >>
          \notin active_outputs
    /\ update_process(r, TRUE, FALSE, {}, {})

\* the tick on reading r makes a hardware OFF call that raises: the polled
\* step completes while its line is asserted
FailedOff(r) ==
    /\ DriverCall /\ ser = "open"
    /\ ~NeedsBaseline(Current(stirrer_processes, Polled))
    /\ << Current(stirrer_processes, Polled).tank_number, Polled >>
          \in active_outputs
    /\ update_process(r, FALSE, TRUE, {}, {})
    /\ stirrer_processes'[Polled].steps[
           stirrer_processes[Polled].current_step + 1].status = "Complete"

\* C27 as stated: when a hardware output call fails during a run, the
\* controller is in simulation mode afterwards and the run continues.
C27_FallsBackToSimulation ==
    [][\A r \in Readings :
          (FailedOn(r) \/ FailedOff(r)) => (gpio_sim' /\ timer')]_vars

\* C27 amended: a hardware output call that fails during a run is caught in
\* set_output: the controller stays in hardware mode (the mode is chosen at
\* start-up only and never changes), the asserted set and the pins are what
\* they were before the call, and the run continues with the timer running.
C27_FailureCaughtModeKept ==
    [][/\ gpio_sim' = gpio_sim
       /\ \A r \in Readings :
            (FailedOn(r) \/ FailedOff(r))
            => /\ ~gpio_sim'
               /\ active_outputs' = active_outputs
               /\ pin_high' = pin_high
               /\ timer' /\ ser' = "open"
               /\ stirrer_processes' # EmptyMap
      ]_vars

\* on the driver, step 1 of station 1 is Dispensing after a tick whose ON
\* call raised: its line is not asserted and the timer runs
C27_Witness ==
    /\ ~gpio_sim /\ timer /\ last_op = "tick"
    /\ Drawing(1, 1)
    /\ << 1, 1 >> \notin active_outputs
    /\ << 1, 1 >> \notin pin_high

\* C28: a tick sends at most one weight query, and no other handler sends
\* any; the query of a tick that polls a step goes to the channel of that
\* step's tank (tank 1 -> 65 'A', tank 2 -> 66 'B', ...), a tick that polls
\* nothing sends none; each query ends with the read that follows it in the
\* same read_weight call, and a tick whose read brings no data changes
\* nothing and leaves the timer running.
C28_OneQueryPerTick ==
    [][/\ Len(queries') <= 1
       /\ last_op' # "tick" => queries' = << >>
       /\ (last_op' = "tick" /\ ~(Polls /\ ser = "open")) => queries' = << >>
       /\ (last_op' = "tick" /\ Polls /\ ser = "open")
          => /\ queries' =
                  << 64 + Current(stirrer_processes, Polled).tank_number >>
             /\ Current(stirrer_processes, Polled).tank_number = 1
                   => queries' = << 65 >>
       /\ (Polls /\ update_process(NoReading, FALSE, FALSE, {}, {}))
          => /\ timer'
             /\ current_stirrer_index' = StirrerIndex
             /\ UNCHANGED << ser, stirrer_processes, stirrer_tables,
                             active_outputs, pin_high, log >>
      ]_vars

\* station 1 is done with tank 6 and the tick polled station 2, whose step
\* draws from tank 1: the query went to channel 'A'
C28_Witness ==
    /\ last_op = "tick" /\ timer
    /\ queries = << 65 >>
    /\ DOMAIN stirrer_processes = {1, 2}
    /\ stirrer_processes[1].status = "Complete"
    /\ stirrer_processes[2].steps[1].tank_number = 1
    /\ stirrer_processes[2].steps[1].status = "Dispensing"

\* C29: in every run, a tick takes the "All stirrers completed" path (the
\* run is not empty and the poll index is past the last station) only when
\* every selected station is Complete with each of its steps Complete, and
\* the first tick after a start polls the lowest-id selected station.
C29_CompleteOnlyWhenAllDone ==
    [][(timer /\ last_op' = "tick" /\ stirrer_processes # EmptyMap)
       => /\ StirrerIndex >= Cardinality(DOMAIN stirrer_processes)
             => \A s \in DOMAIN stirrer_processes :
                   /\ stirrer_processes[s].status = "Complete"
                   /\ \A i \in 1..Len(stirrer_processes[s].steps) :
                         stirrer_processes[s].steps[i].status = "Complete"
          /\ last_op = "start" => StirrerIndex = 0
      ]_vars

\* every selected station of the run is Complete with each step Complete
AllComplete ==
    /\ stirrer_processes # EmptyMap
    /\ \A s \in DOMAIN stirrer_processes :
          /\ stirrer_processes[s].status = "Complete"
          /\ \A i \in 1..Len(stirrer_processes[s].steps) :
                stirrer_processes[s].steps[i].status = "Complete"

\* C30: when the timer keeps ticking and the readings a step waits for keep
\* coming, a run that was started leads to every station and every step
\* being Complete, and that leads to the run having ended by itself: timer
\* stopped, no output asserted, serial connection closed.
C30_RunCompletes ==
    /\ (last_op = "start" /\ timer) ~> AllComplete
    /\ AllComplete ~> (~timer /\ active_outputs = {} /\ pin_high = {}
                         /\ ser = "None")

\* C31: no entry of the run log carries a negative dispensed weight or a
\* negative progress percentage, and the dispensed weight a tick writes for
\* the step it polled is the step's clamped dispensed weight.
C31_LogDispensedClamped ==
    [][last_op' = "tick" =>
          \A k \in DOMAIN log' :
              /\ log'[k].dispensed_weight_kg >= 0
              /\ log'[k].progress_percent >= 0
              /\ (k \notin DOMAIN log \/ log'[k] # log[k])
                 => (/\ k[1] \in DOMAIN stirrer_processes'
                     /\ log'[k].dispensed_weight_kg
                           = stirrer_processes'[k[1]].steps[k[2]].dispensed_weight)
      ]_vars

C33_StepsInListOrder ==
    [][/\ \A s \in DOMAIN stirrer_processes' :
            LET proc == stirrer_processes'[s]
            IN /\ proc.current_step \in 0..Len(proc.steps)
               /\ \A i \in 1..Len(proc.steps) :
                     /\ i < proc.current_step + 1
                           => proc.steps[i].status = "Complete"
                     /\ i = proc.current_step + 1
                           => proc.steps[i].status \in {"Waiting", "Dispensing"}
                     /\ i > proc.current_step + 1
                           => /\ proc.steps[i].status = "Waiting"
                              /\ proc.steps[i].dispensed_weight = 0
                              /\ proc.steps[i].start_weight = 0
       /\ last_op' \in {"tick", "pause", "resume"} =>
            \A s \in DOMAIN stirrer_processes \cap DOMAIN stirrer_processes' :
                LET cs == stirrer_processes[s].current_step
                    cs2 == stirrer_processes'[s].current_step
                    completes ==
                        /\ cs < Len(stirrer_processes[s].steps)
                        /\ stirrer_processes[s].steps[cs + 1].status # "Complete"
                        /\ stirrer_processes'[s].steps[cs + 1].status = "Complete"
                IN cs2 = IF completes THEN cs + 1 ELSE cs
      ]_vars

\* station 1 has completed its first step and is drawing its second
C33_Witness ==
    /\ timer /\ last_op = "tick"
    /\ 1 \in DOMAIN stirrer_processes
    /\ Len(stirrer_processes[1].steps) = 2
    /\ stirrer_processes[1].current_step = 1
    /\ stirrer_processes[1].steps[1].status = "Complete"
    /\ stirrer_processes[1].steps[2].status = "Dispensing"
    /\ stirrer_processes[1].steps[2].start_weight > 0

\* C34: pause and resume leave the progress of every station as it is: the
\* steps with their statuses, baselines and dispensed weights, each
\* station's current step and status, the table rows and the polled station
\* are the same after the call as before; the tick after a resume measures
\* a Dispensing step against the baseline it had before the pause.
C34_PauseKeepsProgress ==
    [][/\ last_op' \in {"pause", "resume"}
          => /\ stirrer_processes' = stirrer_processes
             /\ stirrer_tables' = stirrer_tables
             /\ current_stirrer_index' = current_stirrer_index
       /\ \A r \in ScenarioReadings :
            (/\ last_op = "resume" /\ Polls /\ ser = "open"
             /\ Current(stirrer_processes, Polled).status = "Dispensing"
             /\ Current(stirrer_processes, Polled).start_weight # 0
             /\ update_process(r, FALSE, FALSE, {}, {}))
            => LET b == Current(stirrer_processes, Polled).start_weight
                   k == stirrer_processes[Polled].current_step + 1
                   after == stirrer_processes'[Polled].steps[k]
               IN /\ after.start_weight = b
                  /\ after.dispensed_weight = IF b - r > 0 THEN b - r ELSE 0
                  /\ after.status = "Complete" <=> b - r >= after.target_weight
      ]_vars

\* the run was paused and resumed while step 1 had dispensed 0.5 kg of its
\* 2.0 kg against the baseline 10.0 kg
C34_Witness ==
    /\ last_op = "resume" /\ timer
    /\ Drawing(1, 1)
    /\ stirrer_processes[1].steps[1].start_weight = 100
    /\ stirrer_processes[1].steps[1].dispensed_weight = 5

\* C35: whenever execute_process returns (all steps done, stop flag set,
\* timeout, exception inside a step) every pin of TANK1_GPIO_PINS is LOW;
\* every exit of the loop of wait_for_weight_target leads to the statement
\* that drives the activation's pin LOW, after which that pin is LOW.
C35_PinsLowOnReturn ==
    [][\A w \in 1..MainWorkers :
          /\ (worker[w].pc # "returned" /\ worker'[w].pc = "returned")
                => tank_pins' = {}
          /\ worker[w].pc = "loop" => worker'[w].pc \in {"loop", "low"}
          /\ (worker[w].pc = "low" /\ worker'[w].pc = "disconnect")
                => ActivationOf(worker[w]).stirrer_num \notin tank_pins'
      ]_vars

\* stop_process() returned while execute_process was running, and
\* execute_process has returned since, by the stop flag: every pin is LOW
C35_Witness ==
    /\ worker[1].pc = "returned"
    /\ worker[1].result = "True"
    /\ stop_flag
    /\ halted = {1}
    /\ tank_pins = {}
    /\ stopper = 0

\* C36: once stop_all_tanks() has returned, a worker that was running at
\* that moment drives no pin HIGH any more, whatever the interleaving and
\* also when a new run has cleared the stop flag since.
C36_NoHighAfterStop ==
    [][\A w \in halted :
          ~(/\ worker[w].pc = "high"
            /\ worker'[w].pc = "connect"
            /\ ActivationOf(worker[w]).stirrer_num \in tank_pins')
      ]_vars

\* C37: every activation terminates with its pin LOW: the loop of
\* wait_for_weight_target never runs past the timeout, and an activation
\* that has entered wait_for_weight_target reaches the statement after
\* GPIO.output(pin, GPIO.LOW) with its pin LOW, whatever the instrument
\* answers and also when it never answers.
C37_ActivationTerminates ==
    /\ [](worker[1].pc = "loop" => worker[1].elapsed <= MainTimeout)
    /\ (worker[1].pc = "connect")
          ~> (/\ worker[1].pc = "disconnect"
              /\ ActivationOf(worker[1]).stirrer_num \notin tank_pins)

\* the loop was left by the timeout: the serial link was up, no reading
\* met the target and nobody set the stop flag
C37_Witness ==
    /\ worker[1].pc = "low"
    /\ worker[1].elapsed = MainTimeout
    /\ worker[1].rs485_available
    /\ ~stop_flag
    /\ halted = {}

\* C38: in rs.py the baseline of a step is its first successful reading: a
\* first query without a reading leaves no default behind, so once a reading
\* has arrived the baseline the amount is measured against is the first
\* reading that arrived.
C38_BaselineIsFirstReading ==
    [][(rs'.pc = "loop" /\ rs'.first_reading # NoReading)
          => /\ rs'.prev_weight = rs'.first_reading
             /\ rs'.dispensed <= rs'.first_reading
      ]_vars

\* C39: in imp.py the pin of an activation is HIGH only when the baseline
\* (initial weight) of that activation has been read, and the pin is LOW
\* when the next activation begins.
C39_HighAfterBaseline ==
    /\ imp.pin => (imp.initial_weight # NoReading /\ imp.pc # "initial")
    /\ imp.pc = "activate" => ~imp.pin

====
